---- MODULE Spec2Model ----
(***************************************************************************)
(* Model of packages/select/src/select.tsx: the React components Select,   *)
(* SelectField, SelectIcon and DefaultIcon.                                *)
(*                                                                         *)
(* A JavaScript object (a props object, a CSS object) is a function from a *)
(* finite set of keys (strings) to values.  Scalars are strings ("true",   *)
(* "false", "undefined", "50%"); a className is the sequence of its        *)
(* space-separated tokens; `children` of a select is a sequence of child   *)
(* nodes; `__css`, `style` and `rootProps` are objects; `icon` is a React  *)
(* element [type, props].  The type of a value is fixed by its key.        *)
(*                                                                         *)
(* A render is one step: the state holds the props of the component under  *)
(* render, the attributes the ambient form-control context contributes,    *)
(* and the rendered tree.                                                  *)
(***************************************************************************)
EXTENDS Integers, Sequences, FiniteSets, TLC

VARIABLES component, props, formControl, rendered, tree

vars == <<component, props, formControl, rendered, tree>>

(***************************************************************************)
(* Bounds of the model.                                                    *)
(***************************************************************************)
\* the largest number of properties a caller passes to the component
MaxProps == 3
\* the largest number of <option> children a caller passes
MaxChildren == 2

(***************************************************************************)
(* JavaScript objects.                                                     *)
(***************************************************************************)
Undefined == "undefined"

EmptyObj == [k \in {} |-> Undefined]

\* an absent element (the value `undefined` where an element is expected)
UndefinedElement == [type |-> "undefined", props |-> EmptyObj]

Has(o, k) == k \in DOMAIN o

\* o[k], or d when o has no key k (a destructured absent key is undefined)
Get(o, k, d) == IF k \in DOMAIN o THEN o[k] ELSE d

\* { ...a, ...b }: the keys of both, b's value where both have the key
Spread(a, b) ==
    [k \in DOMAIN a \cup DOMAIN b |-> IF k \in DOMAIN b THEN b[k] ELSE a[k]]

\* const { k1, k2, ...rest } = o: the rest
Omit(o, ks) == [k \in DOMAIN o \ ks |-> o[k]]

Pick(o, ks) == [k \in DOMAIN o \cap ks |-> o[k]]

\* a string-typed value is truthy unless it is undefined or the empty
\* string; every other string, "false" included, is truthy
Truthy(v) == v \notin {Undefined, ""}

(***************************************************************************)
(* Collaborators imported from @chakra-ui/utils, @chakra-ui/system and     *)
(* @chakra-ui/form-control.                                                *)
(***************************************************************************)
\* cx(base, className): the truthy class names joined by a space; a class
\* string is held as the sequence of its tokens, the absent one is <<>>
cx(base, className) == base \o className

\* split(object, keys): [picked, omitted]
split(object, keys) == <<Pick(object, keys), Omit(object, keys)>>

\* the recognized layout property names (sizing, spacing, position)
layoutPropNames ==
    {"width", "height", "minWidth", "maxWidth", "margin", "padding",
     "position", "top", "right", "bottom", "left", "zIndex"}

\* the style-selection-only properties
themingPropNames == {"styleConfig", "size", "variant", "colorScheme"}

omitThemingProps(p) == Omit(p, themingPropNames)

\* the style tokens of a registered component: one CSS object per slot,
\* selected by the theming properties of the props it is given
useStyleConfig(name, p) ==
    [field |-> [component |-> name, part |-> "field",
                variant |-> Get(p, "variant", "outline"),
                size |-> Get(p, "size", "md")],
     icon  |-> [component |-> name, part |-> "icon",
                variant |-> Get(p, "variant", "outline"),
                size |-> Get(p, "size", "md")]]

\* useFormControl(props): the props merged with the accessibility and
\* validation attributes derived from the ambient form-control context
useFormControl(p, context) == Spread(p, context)

\* React.cloneElement(element, props): the element with the given props
\* shallowly merged over its own
cloneElement(element, overrides) ==
    [type |-> element.type, props |-> Spread(element.props, overrides)]

(***************************************************************************)
(* SelectField (lines 51-70).                                              *)
(***************************************************************************)
\* variant of SelectFieldChildren: the placeholder option written after the
\* children
SelectFieldChildrenPlaceholderLast(placeholder, children) ==
    children
    \o << IF Truthy(placeholder)
            THEN [type |-> "option", value |-> "", label |-> placeholder]
            ELSE [type |-> "#falsy", value |-> "", label |-> placeholder] >>

\* {placeholder && <option value="">{placeholder}</option>} {children}
\* `a && b` is b when a is truthy and a itself otherwise
SelectFieldChildren(placeholder, children) ==
    << IF Truthy(placeholder)
         THEN [type |-> "option", value |-> "", label |-> placeholder]
         ELSE [type |-> "#falsy", value |-> "", label |-> placeholder] >>
    \o children

\* variant of SelectFieldAttrs: disabled={isDisabled} written before the
\* two spreads
SelectFieldAttrsDisabledFirst(select, rest, className, isDisabled) ==
    Spread(Spread(Spread("disabled" :> isDisabled, select), rest),
           "className" :> cx(<<"chakra-select">>, className))

\* <chakra.select {...select} {...rest} className=... disabled={isDisabled}>
SelectFieldAttrs(select, rest, className, isDisabled) ==
    Spread(Spread(select, rest),
           ("className" :> cx(<<"chakra-select">>, className))
           @@ ("disabled" :> isDisabled))

SelectField(p, context) ==
    LET children    == Get(p, "children", <<>>)
        placeholder == Get(p, "placeholder", Undefined)
        className   == Get(p, "className", <<>>)
        isDisabled  == Get(p, "isDisabled", Undefined)
        rest   == Omit(p, {"children", "placeholder", "className", "isDisabled"})
        select == useFormControl(rest, context)
    IN  Spread(SelectFieldAttrs(select, rest, className, isDisabled),
               "children" :> SelectFieldChildren(placeholder, children))

(***************************************************************************)
(* DefaultIcon and SelectIcon (lines 146-199).                             *)
(***************************************************************************)
\* <svg viewBox="0 0 24 24" {...props}><path .../></svg>: the path is the
\* svg's child whatever children the props carry
DefaultIcon(p) ==
    [type  |-> "svg",
     props |-> Spread(Spread("viewBox" :> "0 0 24 24", p),
                      "children" :> "M16.59 8.59L12 13.17 7.41 8.59 6 10l6 6 6-6z")]

DefaultIconElement == [type |-> "DefaultIcon", props |-> EmptyObj]

\* the props forced onto the icon
IconOverrides ==
    ("role" :> "presentation")
    @@ ("className" :> <<"chakra-select__icon">>)
    @@ ("focusable" :> "false")
    @@ ("aria-hidden" :> "true")
    @@ ("style" :> [width |-> "1em", height |-> "1em", color |-> "currentColor"])

\* variant of SelectIconClone: the icon's own props kept over the forced ones
SelectIconCloneKeepOwn(children) ==
    [type |-> children.type, props |-> Spread(IconOverrides, children.props)]

\* const clone = React.cloneElement(children, {...})
SelectIconClone(children) == cloneElement(children, IconOverrides)

\* <IconWrapper {...rest} className="chakra-select__icon-wrapper" children={clone}/>
SelectIcon(p) ==
    LET given    == Get(p, "children", UndefinedElement)
        children == IF given = UndefinedElement THEN DefaultIconElement ELSE given
        rest     == Omit(p, {"children"})
        clone    == SelectIconClone(children)
    IN  Spread(rest,
               ("className" :> <<"chakra-select__icon-wrapper">>)
               @@ ("children" :> clone))

\* the host runtime renders the built-in glyph to its svg
RenderIcon(element) ==
    IF element.type = "DefaultIcon" THEN DefaultIcon(element.props) ELSE element

(***************************************************************************)
(* Select (lines 100-140).                                                 *)
(***************************************************************************)
\* variant of SelectStyles: the tokens resolved after the theming
\* properties are stripped
SelectStylesStripped(p) == useStyleConfig("Select", omitThemingProps(p))

\* const styles = useStyleConfig("Select", props)
SelectStyles(p) == useStyleConfig("Select", p)

\* variant of SelectRest: icon and color left among the rest
SelectRestKeepIcon(p) == Omit(omitThemingProps(p), {"rootProps", "placeholder"})

\* const { rootProps, placeholder, icon, color, ...rest } = omitThemingProps(props)
SelectRest(p) ==
    Omit(omitThemingProps(p), {"rootProps", "placeholder", "icon", "color"})

\* variant of SelectWrapper: rootProps spread before the layout properties
SelectWrapperRootFirst(color, layoutProps, rootProps) ==
    Omit(Spread(Spread(("className" :> <<"chakra-select__wrapper">>)
                       @@ ("__css" :> [width |-> "100%", position |-> "relative",
                                       color |-> color]),
                       rootProps),
                layoutProps),
         {"children"})

\* <chakra.div className=... __css={{...}} {...layoutProps} {...rootProps}>
\* the attributes of the wrapper; its children are the SelectField and the
\* SelectIcon written inside it, which replace any `children` that the
\* spread props carry (the tree holds them as field and iconWrapper)
SelectWrapper(color, layoutProps, rootProps) ==
    Omit(Spread(Spread(("className" :> <<"chakra-select__wrapper">>)
                       @@ ("__css" :> [width |-> "100%", position |-> "relative",
                                       color |-> color]),
                       layoutProps),
                rootProps),
         {"children"})

\* <SelectField placeholder={placeholder} {...otherProps} __css={styles.field}>
\*   {props.children}
SelectFieldProps(placeholder, otherProps, styles, children) ==
    Spread(Spread("placeholder" :> placeholder, otherProps),
           ("__css" :> styles.field) @@ ("children" :> children))

\* variant of SelectIconProps: the color not handed to the icon slot
SelectIconPropsNoColor(p, icon, color, styles) ==
    ("data-disabled" :> Get(p, "isDisabled", Undefined))
    @@ ("children" :> icon)
    @@ ("__css" :> styles.icon)

\* variant of SelectIconProps: iconSize and iconColor handed to the icon slot
SelectIconPropsWithIconSize(p, icon, color, styles) ==
    ("data-disabled" :> Get(p, "isDisabled", Undefined))
    @@ ("children" :> icon)
    @@ ("color" :> Get(p, "iconColor", color))
    @@ ("fontSize" :> Get(p, "iconSize", Undefined))
    @@ ("__css" :> styles.icon)

\* <SelectIcon data-disabled=... children={icon} color={color} __css={styles.icon}/>
SelectIconProps(p, icon, color, styles) ==
    ("data-disabled" :> Get(p, "isDisabled", Undefined))
    @@ ("children" :> icon)
    @@ ("color" :> color)
    @@ ("__css" :> styles.icon)

Select(p, context) ==
    LET styles      == SelectStyles(p)
        stripped    == omitThemingProps(p)
        rootProps   == Get(stripped, "rootProps", EmptyObj)
        placeholder == Get(stripped, "placeholder", Undefined)
        icon        == Get(stripped, "icon", UndefinedElement)
        color       == Get(stripped, "color", Undefined)
        parts       == split(SelectRest(p), layoutPropNames)
        layoutProps == parts[1]
        otherProps  == parts[2]
        fieldProps  == SelectFieldProps(placeholder, otherProps, styles,
                                        Get(p, "children", <<>>))
        iconProps   == SelectIconProps(p, icon, color, styles)
        iconWrapper == SelectIcon(iconProps)
    IN  [wrapper     |-> SelectWrapper(color, layoutProps, rootProps),
         fieldProps  |-> fieldProps,
         field       |-> SelectField(fieldProps, context),
         iconProps   |-> iconProps,
         iconWrapper |-> iconWrapper,
         icon        |-> RenderIcon(iconWrapper["children"])]

(***************************************************************************)
(* The inputs of a render.                                                 *)
(***************************************************************************)
OptionChildren == {[type |-> "option", value |-> "a", label |-> "A"],
                   [type |-> "option", value |-> "b", label |-> "B"]}

ChildLists == UNION {[1..n -> OptionChildren] : n \in 1..MaxChildren}

\* the icon elements a caller passes: bare, with own props that conflict
\* with the forced ones, and with own props that do not
IconElements ==
    {[type |-> "CustomIcon", props |-> EmptyObj],
     [type |-> "CustomIcon",
      props |-> ("role" :> "img") @@ ("className" :> <<"my-icon">>)
                @@ ("focusable" :> "true") @@ ("aria-hidden" :> "false")
                @@ ("style" :> [width |-> "2em", height |-> "2em", color |-> "red"])],
     [type |-> "CustomIcon",
      props |-> ("data-testid" :> "custom") @@ ("style" :> [opacity |-> "0.5"])]}

RootPropsValues(k) ==
    CASE k = "className" -> {<<"root">>}
      [] k = "width"     -> {"200px"}
      [] k = "__css"     -> {[color |-> "blue.100"]}
      [] k = "children"  -> {<<[type |-> "#text", value |-> "X", label |-> "X"]>>}

PropValues(k) ==
    CASE k = "placeholder"  -> {"", "Choose", "false"}
      [] k = "isDisabled"   -> {"true", "false"}
      [] k = "className"    -> {<<"foo">>}
      [] k = "color"        -> {"red.500"}
      [] k = "variant"      -> {"filled"}
      [] k = "size"         -> {"lg"}
      [] k = "width"        -> {"50%"}
      [] k = "margin"       -> {"4"}
      [] k = "iconSize"     -> {"2em"}
      [] k = "iconColor"    -> {"blue.500"}
      [] k = "aria-invalid" -> {"false"}
      [] k = "disabled"     -> {"true"}
      [] k = "__css"        -> {[color |-> "pink"]}
      [] k = "children"     -> ChildLists

ContextValues(k) ==
    CASE k = "disabled"     -> {"true"}
      [] k = "aria-invalid" -> {"true"}

\* every object over a subset of the keys K, the value of each key drawn
\* from the values of its kind of object
\* every object with at most n keys, all among K, the value of key k drawn
\* from V[k]
RECURSIVE Objects(_, _, _)
Objects(K, V, n) ==
    IF K = {} \/ n = 0 THEN {EmptyObj}
    ELSE LET k    == CHOOSE q \in K : TRUE
         IN  Objects(K \ {k}, V, n)
             \cup {Spread(o, k :> v) : o \in Objects(K \ {k}, V, n - 1), v \in V[k]}

RootPropNames == {"className", "width", "__css", "children"}

RootPropsObjects ==
    Objects(RootPropNames, [k \in RootPropNames |-> RootPropsValues(k)],
            Cardinality(RootPropNames))

FieldPropNames ==
    {"placeholder", "isDisabled", "className", "color", "variant", "size",
     "width", "margin", "iconSize", "iconColor", "aria-invalid", "disabled",
     "__css", "children"}

SelectPropNames == FieldPropNames \cup {"icon", "rootProps"}

PropValuesOf ==
    [k \in SelectPropNames |->
        CASE k = "icon"      -> IconElements
          [] k = "rootProps" -> RootPropsObjects
          [] OTHER           -> PropValues(k)]

FieldInputs == Objects(FieldPropNames, PropValuesOf, MaxProps)

SelectInputs == Objects(SelectPropNames, PropValuesOf, MaxProps)

ContextNames == {"disabled", "aria-invalid"}

Contexts ==
    Objects(ContextNames, [k \in ContextNames |-> ContextValues(k)],
            Cardinality(ContextNames))

NotRendered ==
    [wrapper |-> EmptyObj, fieldProps |-> EmptyObj, field |-> EmptyObj,
     iconProps |-> EmptyObj, iconWrapper |-> EmptyObj, icon |-> UndefinedElement]

(***************************************************************************)
(* The state machine: a component is mounted with its props inside a form  *)
(* control context, then rendered.                                         *)
(***************************************************************************)
Init ==
    /\ component \in {"Select", "SelectField"}
    /\ props \in IF component = "Select" THEN SelectInputs ELSE FieldInputs
    /\ formControl \in Contexts
    /\ rendered = FALSE
    /\ tree = NotRendered

RenderSelect ==
    /\ component = "Select"
    /\ ~rendered
    /\ rendered' = TRUE
    /\ tree' = Select(props, formControl)
    /\ UNCHANGED <<component, props, formControl>>

RenderSelectField ==
    /\ component = "SelectField"
    /\ ~rendered
    /\ rendered' = TRUE
    /\ tree' = [NotRendered EXCEPT !.fieldProps = props,
                                   !.field = SelectField(props, formControl)]
    /\ UNCHANGED <<component, props, formControl>>

Next == RenderSelect \/ RenderSelectField

Spec == Init /\ [][Next]_vars

(***************************************************************************)
(* Properties of the rendered tree.                                        *)
(***************************************************************************)
SelectRendered == rendered /\ component = "Select"

\* the option elements of a rendered select, in order (the host runtime
\* renders nothing for a falsy child)
RenderedOptions(select) ==
    LET IsOption(c) == c.type = "option"
    IN  SelectSeq(select["children"], IsOption)

HasClass(className, token) == \E i \in 1..Len(className) : className[i] = token

PropsRootProps == Get(props, "rootProps", EmptyObj)

\* C1: a non-empty placeholder gives exactly one option with value "" and
\* the placeholder as label, followed by the supplied children in their
\* order; an empty or undefined placeholder gives exactly the children.
C1_PlaceholderOption ==
    rendered =>
        LET placeholder == Get(props, "placeholder", Undefined)
            children    == Get(props, "children", <<>>)
        IN  RenderedOptions(tree.field) =
                IF placeholder \notin {Undefined, ""}
                  THEN <<[type |-> "option", value |-> "", label |-> placeholder]>>
                       \o children
                  ELSE children

C1_Witness ==
    /\ SelectRendered
    /\ Get(props, "placeholder", Undefined) = "Choose"
    /\ Len(Get(props, "children", <<>>)) = 2
    /\ Len(RenderedOptions(tree.field)) = 3
    /\ RenderedOptions(tree.field)[1].label = "Choose"

\* C2: the rendered select's disabled attribute is set iff isDisabled is
\* true, whatever the form-control collaborator or a passthrough `disabled`
\* supplies.
C2_DisabledIffIsDisabled ==
    rendered =>
        /\ Has(tree.field, "disabled")
        /\ tree.field["disabled"] = Get(props, "isDisabled", Undefined)
        /\ (tree.field["disabled"] = "true") <=> (Get(props, "isDisabled", Undefined) = "true")

C2_Witness ==
    /\ rendered
    /\ Get(formControl, "disabled", Undefined) = "true"
    /\ Get(props, "disabled", Undefined) = "true"
    /\ Get(props, "isDisabled", Undefined) # "true"
    /\ tree.field["disabled"] # "true"

\* C3: the rendered icon, the caller's or the default glyph, carries
\* role "presentation", aria-hidden true, focusable false, exactly the class
\* chakra-select__icon and the style 1em x 1em in currentColor, over
\* whatever the caller's icon element carried for those attributes.
C3_IconForcedAttributes ==
    SelectRendered =>
        /\ tree.icon.type = IF Has(props, "icon") THEN props["icon"].type ELSE "svg"
        /\ {"role", "aria-hidden", "focusable", "className", "style"}
               \subseteq DOMAIN tree.icon.props
        /\ tree.icon.props["role"] = "presentation"
        /\ tree.icon.props["aria-hidden"] = "true"
        /\ tree.icon.props["focusable"] = "false"
        /\ tree.icon.props["className"] = <<"chakra-select__icon">>
        /\ tree.icon.props["style"] =
               [width |-> "1em", height |-> "1em", color |-> "currentColor"]

C3_Witness ==
    /\ SelectRendered
    /\ Has(props, "icon")
    /\ Get(props["icon"].props, "role", Undefined) = "img"
    /\ Has(props["icon"].props, "style")
    /\ tree.icon.type = "CustomIcon"
    /\ tree.icon.props["role"] = "presentation"

\* C4 as claimed: every layout-named property is on the wrapper and not
\* passed to SelectField; every other property is passed to SelectField and
\* not applied to the wrapper.
C4_EveryPropertyPartitioned ==
    SelectRendered =>
        \A k \in DOMAIN props :
            IF k \in layoutPropNames
              THEN Has(tree.wrapper, k) /\ ~Has(tree.fieldProps, k)
              ELSE /\ Has(tree.fieldProps, k)
                   /\ tree.fieldProps[k] = props[k]
                   /\ ~(Has(tree.wrapper, k) /\ tree.wrapper[k] = props[k])

\* the properties Select takes for itself before the split
SelectConsumedNames == {"rootProps", "icon", "color"} \cup themingPropNames

\* C4, amended: a layout-named property is on the wrapper (with the
\* caller's value unless rootProps has the same key) and is not passed to
\* SelectField; any other property is passed to SelectField unchanged and
\* reaches the wrapper from nowhere but rootProps, except rootProps, icon,
\* color and the theming-only properties, which are not passed on, and
\* __css, which is replaced by the field style token.
C4_PropertyPartition ==
    SelectRendered =>
        /\ DOMAIN tree.fieldProps =
               {"placeholder", "__css", "children"}
               \cup (DOMAIN props \ (layoutPropNames \cup SelectConsumedNames))
        /\ \A k \in DOMAIN props :
            CASE k \in layoutPropNames ->
                    /\ Has(tree.wrapper, k)
                    /\ tree.wrapper[k] = Get(PropsRootProps, k, props[k])
                    /\ ~Has(tree.fieldProps, k)
                    /\ ~Has(tree.field, k)
              [] k \in SelectConsumedNames -> ~Has(tree.fieldProps, k)
              [] k = "__css" ->
                    tree.fieldProps[k] = useStyleConfig("Select", props).field
              [] OTHER ->
                    /\ Has(tree.fieldProps, k)
                    /\ tree.fieldProps[k] = props[k]
                    /\ Has(tree.wrapper, k) =>
                          \/ Has(PropsRootProps, k) /\ tree.wrapper[k] = PropsRootProps[k]
                          \/ k = "className"
                             /\ tree.wrapper[k] = <<"chakra-select__wrapper">>

C4_Witness ==
    /\ SelectRendered
    /\ Has(props, "width") /\ Has(props, "aria-invalid") /\ Has(props, "icon")
    /\ Get(tree.wrapper, "width", Undefined) = "50%"
    /\ Get(tree.fieldProps, "aria-invalid", Undefined) = "false"
    /\ ~Has(tree.fieldProps, "icon")

\* C5: the rendered subtree always carries the four class hooks:
\* chakra-select__wrapper on the container, chakra-select on the select,
\* chakra-select__icon-wrapper on the icon wrapper, chakra-select__icon on
\* the icon.
C5_ClassHooks ==
    SelectRendered =>
        /\ HasClass(Get(tree.wrapper, "className", <<>>), "chakra-select__wrapper")
        /\ HasClass(Get(tree.field, "className", <<>>), "chakra-select")
        /\ HasClass(Get(tree.iconWrapper, "className", <<>>), "chakra-select__icon-wrapper")
        /\ HasClass(Get(tree.icon.props, "className", <<>>), "chakra-select__icon")

\* C6: the wrapper carries the base styles (width 100%, position relative,
\* the caller's color) and class, merged with the layout properties and
\* then with rootProps: a key of rootProps carries the rootProps value, any
\* other layout key the caller's value, any other key the base value; the
\* wrapper's children are its own, never those of rootProps.
C6_WrapperMerge ==
    SelectRendered =>
        /\ DOMAIN tree.wrapper =
               {"className", "__css"}
               \cup (DOMAIN props \cap layoutPropNames)
               \cup (DOMAIN PropsRootProps \ {"children"})
        /\ \A k \in DOMAIN tree.wrapper :
              tree.wrapper[k] =
                  IF Has(PropsRootProps, k) THEN PropsRootProps[k]
                  ELSE IF k \in layoutPropNames THEN props[k]
                  ELSE IF k = "className" THEN <<"chakra-select__wrapper">>
                  ELSE [width |-> "100%", position |-> "relative",
                        color |-> Get(props, "color", Undefined)]

C6_Witness ==
    /\ SelectRendered
    /\ Get(props, "width", Undefined) = "50%"
    /\ Get(PropsRootProps, "width", Undefined) = "200px"
    /\ tree.wrapper["width"] = "200px"
    /\ tree.wrapper["__css"]["width"] = "100%"

\* C7: every attribute the form-control collaborator returns, other than
\* disabled, is carried by the rendered select with the collaborator's
\* value, also when the caller passed a property of the same name.
C7_FormControlPrecedence ==
    rendered =>
        LET rest   == Omit(tree.fieldProps,
                           {"children", "placeholder", "className", "isDisabled"})
            select == useFormControl(rest, formControl)
        IN  \A k \in DOMAIN select \ {"disabled"} :
                Has(tree.field, k) /\ tree.field[k] = select[k]

\* C8: the style tokens are resolved from the full property set, theming
\* selectors included; no theming-only property reaches the wrapper, the
\* field or the icon; the field receives the field token and the icon
\* wrapper the icon token.
C8_ThemingResolvedThenStripped ==
    SelectRendered =>
        /\ tree.fieldProps["__css"]["variant"] = Get(props, "variant", "outline")
        /\ tree.fieldProps["__css"]["size"] = Get(props, "size", "md")
        /\ tree.fieldProps["__css"] = useStyleConfig("Select", props).field
        /\ tree.field["__css"] = useStyleConfig("Select", props).field
        /\ tree.iconProps["__css"] = useStyleConfig("Select", props).icon
        /\ tree.iconWrapper["__css"] = useStyleConfig("Select", props).icon
        /\ \A part \in {tree.wrapper, tree.fieldProps, tree.field,
                        tree.iconProps, tree.iconWrapper, tree.icon.props} :
              DOMAIN part \cap themingPropNames = {}

C8_Witness ==
    /\ SelectRendered
    /\ Get(props, "variant", Undefined) = "filled"
    /\ Get(props, "size", Undefined) = "lg"
    /\ tree.field["__css"]["variant"] = "filled"
    /\ tree.field["__css"]["size"] = "lg"
    /\ ~Has(tree.field, "variant")

\* C9 as claimed: for every explicit color and any rootProps, the wrapper's
\* color style and the color the icon wrapper receives both equal it.
C9_ExplicitColorWins ==
    SelectRendered /\ Has(props, "color") =>
        /\ tree.wrapper["__css"]["color"] = props["color"]
        /\ Get(tree.iconWrapper, "color", Undefined) = props["color"]

\* C9, amended: for every explicit color, the icon wrapper receives it
\* whatever rootProps holds, and the wrapper's color style equals it for
\* every rootProps that has no __css entry of its own; a rootProps.__css
\* replaces the wrapper's base styles, color included.
C9_ExplicitColorThreaded ==
    SelectRendered /\ Has(props, "color") =>
        /\ Get(tree.iconProps, "color", Undefined) = props["color"]
        /\ Get(tree.iconWrapper, "color", Undefined) = props["color"]
        /\ IF Has(PropsRootProps, "__css")
             THEN tree.wrapper["__css"] = PropsRootProps["__css"]
             ELSE tree.wrapper["__css"]["color"] = props["color"]

C9_Witness ==
    /\ SelectRendered
    /\ Get(props, "color", Undefined) = "red.500"
    /\ Has(PropsRootProps, "className")
    /\ ~Has(PropsRootProps, "__css")
    /\ tree.wrapper["__css"]["color"] = "red.500"
    /\ tree.iconWrapper["color"] = "red.500"

\* C10: iconSize and iconColor never reach the icon slot: SelectIcon gets
\* only data-disabled, children, color and the icon token; both properties
\* go to SelectField with the other non-layout properties; the icon slot is
\* the same as if they had not been passed.
C10_IconSizeIgnored ==
    SelectRendered =>
        LET without == Select(Omit(props, {"iconSize", "iconColor"}), formControl)
        IN  /\ DOMAIN tree.iconProps = {"data-disabled", "children", "color", "__css"}
            /\ tree.iconProps["color"] = Get(props, "color", Undefined)
            /\ \A k \in {"iconSize", "iconColor"} \cap DOMAIN props :
                  /\ tree.fieldProps[k] = props[k]
                  /\ tree.field[k] = props[k]
            /\ tree.iconWrapper = without.iconWrapper
            /\ tree.icon = without.icon

C10_Witness ==
    /\ SelectRendered
    /\ Get(props, "iconSize", Undefined) = "2em"
    /\ Get(props, "iconColor", Undefined) = "blue.500"
    /\ Get(tree.field, "iconSize", Undefined) = "2em"
    /\ tree.icon.props["style"]["width"] = "1em"
    /\ ~Has(tree.iconWrapper, "iconColor")

====
